---- MODULE Spec2Model ----
(***************************************************************************)
(* A model of the SQL generator backend: the schema file written by        *)
(* /upload-schema/ and read by /generate-sql/ (main.py), the call to the   *)
(* upstream generation API with its retry loop (main.py) and without it    *)
(* (gemini_service.py), and the connection pool handle (database.py).      *)
(*                                                                         *)
(* Handlers are coroutines of one event loop: an action is the code a      *)
(* handler runs between two await points.  Text is a sequence of           *)
(* characters, a file's content a sequence of bytes.                       *)
(***************************************************************************)
EXTENDS Integers, Sequences, FiniteSets, TLC

\* Request slots of the schema-store specification (requests in flight at once).
MaxReq == 2
\* Callers of get_db_pool in the pool specification.
MaxCallers == 3

VARIABLES
    upload_dir,  \* whether the directory uploads/ exists
    file,        \* uploads/schema.sql: Absent, or its bytes
    API_KEY,     \* whether GEMINI_API_KEY was set when the module was imported
    variant,     \* which generate_sql_from_gemini the endpoint calls
    req,         \* the request handlers: one record per slot
    lastWrite,   \* history: the upload that last opened the schema file for writing
    pool,        \* database.py: the module-level pool handle
    phase,       \* the application's lifecycle
    created,     \* history: pools create_pool returned
    closed,      \* history: calls of pool.close() that returned
    caller       \* callers of get_db_pool, and what each was handed

vars ==
    <<upload_dir, file, API_KEY, variant, req, lastWrite, pool, phase, created, closed, caller>>
storeVars == <<file, API_KEY, variant, req, lastWrite>>
dbVars == <<pool, phase, created, closed, caller>>

-----------------------------------------------------------------------------
(* Characters and bytes *)

BT == "BT"          \* the backtick character
LF == "\n"
CR == "\r"
SP == " "
BAD == "0xFF"       \* a byte that is not valid UTF-8
Absent == <<"no file">>  \* the file does not exist: no sequence of bytes
None == <<>>        \* dict.get of a missing key: falsy, as the empty list is

Whitespace == {SP, LF, CR, "\t"}

\* str.strip(): leading and trailing whitespace removed, inner whitespace kept.
RECURSIVE lstrip(_)
lstrip(s) ==
    IF s # <<>> /\ Head(s) \in Whitespace THEN lstrip(Tail(s)) ELSE s

RECURSIVE rstrip(_)
rstrip(s) ==
    IF s # <<>> /\ s[Len(s)] \in Whitespace THEN rstrip(SubSeq(s, 1, Len(s) - 1)) ELSE s

strip(s) == rstrip(lstrip(s))

\* str.replace(old, ""): the non-overlapping occurrences of old, left to right.
RECURSIVE replace(_, _)
replace(s, old) ==
    IF Len(s) < Len(old) THEN s
    ELSE IF SubSeq(s, 1, Len(old)) = old
         THEN replace(SubSeq(s, Len(old) + 1, Len(s)), old)
         ELSE <<Head(s)>> \o replace(Tail(s), old)

Fence == <<BT, BT, BT>>
FenceSql == <<BT, BT, BT, "s", "q", "l">>

\* Whether sub occurs in s.
Contains(s, sub) ==
    \E k \in 1..(Len(s) - Len(sub) + 1) : SubSeq(s, k, k + Len(sub) - 1) = sub

\* generated_text.strip().replace("```sql", "").replace("```", "").strip()
Sanitize(text) == strip(replace(replace(strip(text), FenceSql), Fence))

\* open(SCHEMA_FILE_PATH, "r").read() decodes the bytes (UTF-8, strict) ...
Decodable(bytes) == \A k \in 1..Len(bytes) : bytes[k] # BAD

\* ... and translates the line ends CR LF and CR to LF (universal newlines).
RECURSIVE Decode(_)
Decode(bytes) ==
    IF bytes = <<>> THEN <<>>
    ELSE IF Head(bytes) = CR
         THEN <<LF>> \o Decode(IF Len(bytes) >= 2 /\ bytes[2] = LF
                               THEN SubSeq(bytes, 3, Len(bytes))
                               ELSE Tail(bytes))
         ELSE <<Head(bytes)>> \o Decode(Tail(bytes))

-----------------------------------------------------------------------------
(* Inputs *)

\* Uploaded files: two text files, one of them a CR LF line end, and a binary one.
Payloads == { <<"a">>, <<CR, LF>>, <<BAD>> }

\* business_logic of a generate-sql request: empty or not.
Logics == { <<>>, <<"q">> }

\* GEMINI_API_KEY: unset (os.getenv gives None) or set.
Keys == { FALSE, TRUE }

\* The two definitions of generate_sql_from_gemini: main.py's and gemini_service.py's.
Variants == { "main", "service" }

-----------------------------------------------------------------------------
(* The upstream generation API *)

TextPlain == <<"S">>
TextFenced == FenceSql \o <<LF, "S", LF>> \o Fence
TextLines == <<"S", LF, "F">>
TextNested == <<BT, BT>> \o FenceSql \o <<BT, SP, "S">>

\* A response document with the text at candidates[0].content.parts[0].text.
Wrap(text) == [candidates |-> << [content |-> [parts |-> << [text |-> text] >>]] >>]

\* Response bodies, by name; "not_json" is a body response.json() cannot parse.
GoodBodies == { "plain", "fenced", "lines", "nested" }
AbsentBodies == { "no_candidates", "no_content", "no_parts", "no_text" }
Bodies == GoodBodies \cup AbsentBodies \cup { "empty_text", "not_json" }

BodyText(body) ==
    CASE body = "plain" -> TextPlain
      [] body = "fenced" -> TextFenced
      [] body = "lines" -> TextLines
      [] body = "nested" -> TextNested

\* response.json()
Json(body) ==
    CASE body \in GoodBodies -> Wrap(BodyText(body))
      [] body = "empty_text" -> Wrap(<<>>)
      [] body = "no_candidates" -> [promptFeedback |-> [blockReason |-> "SAFETY"]]
      [] body = "no_content" -> [candidates |-> << [finishReason |-> "SAFETY"] >>]
      [] body = "no_parts" -> [candidates |-> << [content |-> [role |-> "model"]] >>]
      [] body = "no_text" ->
            [candidates |-> << [content |-> [parts |-> << [inlineData |-> "x"] >>]] >>]
      [] body = "error" -> [error |-> [status |-> "UNAVAILABLE"]]

\* HTTP statuses the upstream answers with: 200, another 2xx, and two errors.
SuccessStatuses == { 200, 201 }
ErrorStatuses == { 429, 503 }

Responses ==
    { [status |-> s, body |-> b] : s \in SuccessStatuses, b \in Bodies }
    \cup { [status |-> s, body |-> "error"] : s \in ErrorStatuses }

NoResponse == [status |-> 0, body |-> "none"]

\* One POST ends with a response or with httpx.RequestError (connect, timeout, ...).
RequestError == [status |-> -1, body |-> "RequestError"]
Outcomes == Responses \cup { RequestError }

\* dict.get(key) and Python truthiness of a dict, list or str.
Get(d, key) == IF key \in DOMAIN d THEN d[key] ELSE None
Truthy(v) == DOMAIN v # {}

\* The walk of main.py:111 / gemini_service.py:43; the text, or None.
Extract(result) ==
    LET candidates == Get(result, "candidates") IN
    IF ~Truthy(candidates) THEN None ELSE
    LET content == Get(candidates[1], "content") IN
    IF ~Truthy(content) THEN None ELSE
    LET parts == Get(content, "parts") IN
    IF ~Truthy(parts) THEN None ELSE
    Get(parts[1], "text")

\* httpx.Response.is_success, which raise_for_status() tests.
is_success(status) == 200 <= status /\ status <= 299

\* main.py:106: if response.status_code == 200: break
BreaksLoop(status) == status = 200

\* Mutant of Backoff: a linear backoff.
BackoffLinear(i) == i + 1

\* main.py:108: asyncio.sleep(2 ** i)
Backoff(i) == 2 ^ i

\* main.py:104: range(3)
Attempts == 3

\* Mutant of ExceptClause: an upstream error status is handed on to the caller.
ExceptClausePropagate(e) ==
    IF e.type = "RequestError" THEN 503
    ELSE IF e.type = "HTTPStatusError" THEN e.status ELSE 500

\* Mutant of ExceptClause: a network failure is treated as any other exception.
ExceptClauseNoRequestError(e) == 500

\* The except clauses of generate_sql_from_gemini: httpx.RequestError becomes 503,
\* every other exception (HTTPStatusError of raise_for_status, a JSON error, the
\* HTTPException raised in the try block itself) becomes 500.
ExceptClause(e) == IF e.type = "RequestError" THEN 503 ELSE 500

Exc(type, status) == [type |-> type, status |-> status]

\* What follows the loop: raise_for_status(), json(), the walk and the clean-up.
\* The result is the HTTP status of the call and the SQL it returns.
Inspect(response) ==
    IF ~is_success(response.status)
    THEN [status |-> ExceptClause(Exc("HTTPStatusError", response.status)),
          detail |-> "internal", sql |-> <<>>]
    ELSE IF response.body = "not_json"
    THEN [status |-> ExceptClause(Exc("JSONDecodeError", 0)),
          detail |-> "internal", sql |-> <<>>]
    ELSE LET text == Extract(Json(response.body)) IN
         IF Truthy(text)
         THEN [status |-> 200, detail |-> "ok", sql |-> Sanitize(text)]
         ELSE [status |-> ExceptClause(Exc("HTTPException", 500)),
               detail |-> "internal", sql |-> <<>>]

-----------------------------------------------------------------------------
(* Request handlers *)

Idle ==
    [kind |-> "none", pc |-> "idle", contents |-> <<>>, failed |-> FALSE,
     business_logic |-> <<>>, schema_ddl |-> <<>>, i |-> 0,
     response |-> NoResponse, posts |-> 0, waited |-> 0,
     status |-> 0, detail |-> "none", sql |-> <<>>]

NoWrite == [written |-> FALSE, content |-> <<>>, ok |-> FALSE]

\* What a failed f.write(contents) leaves behind: a proper prefix of contents.
Partial(contents) == { SubSeq(contents, 1, k) : k \in 0..(Len(contents) - 1) }

\* Mutant of WriteFile: the file is opened in append mode.
WriteFileAppend(old, contents) == IF old = Absent THEN contents ELSE old \o contents

\* main.py:137-138: open(SCHEMA_FILE_PATH, "wb") truncates, f.write(contents).
WriteFile(old, contents) == contents

\* What can happen to an upload between file.read() and file.close().
IoOutcomes == { "ok", "read_fails", "open_fails", "write_fails" }

\* open(SCHEMA_FILE_PATH, "wb") needs the directory main.py:64 creates.
CanOpen(io) == io \in { "ok", "write_fails" } => upload_dir

\* POST /upload-schema/ arrives with a file; the handler runs up to
\* `await file.read()`, which will return `contents`.
upload_ddl_schema(r, contents) ==
    /\ req[r].pc = "idle"
    /\ req' = [req EXCEPT ![r] = [Idle EXCEPT !.kind = "upload", !.pc = "reading",
                                              !.contents = contents]]
    /\ UNCHANGED <<file, lastWrite, API_KEY, variant, upload_dir, dbVars>>

\* file.read() returns or raises; the handler opens and writes the schema file
\* (main.py:135-138, no await in between) and runs up to `await file.close()`.
upload_write(r, io) ==
    /\ req[r].kind = "upload" /\ req[r].pc = "reading"
    /\ CanOpen(io)
    /\ LET contents == req[r].contents IN
       CASE io = "ok" ->
              /\ file' = WriteFile(file, contents)
              /\ lastWrite' = [written |-> TRUE, content |-> contents, ok |-> TRUE]
              /\ req' = [req EXCEPT ![r].pc = "closing"]
         [] io \in { "read_fails", "open_fails" } ->
              /\ req' = [req EXCEPT ![r].pc = "closing", ![r].failed = TRUE]
              /\ UNCHANGED <<file, lastWrite>>
         [] io = "write_fails" ->
              /\ \E part \in Partial(contents) : file' = part
              /\ lastWrite' = [written |-> TRUE, content |-> contents, ok |-> FALSE]
              /\ req' = [req EXCEPT ![r].pc = "closing", ![r].failed = TRUE]
    /\ UNCHANGED <<API_KEY, variant, upload_dir, dbVars>>

\* file.close() returns: the handler raises HTTPException(500) or returns UploadResponse.
upload_close(r) ==
    /\ req[r].kind = "upload" /\ req[r].pc = "closing"
    /\ req' = [req EXCEPT ![r].pc = "done",
                          ![r].status = IF req[r].failed THEN 500 ELSE 200,
                          ![r].detail = IF req[r].failed THEN "upload_error" ELSE "ok"]
    /\ UNCHANGED <<file, lastWrite, API_KEY, variant, upload_dir, dbVars>>

\* Mutant of Precheck: without the os.path.exists test, open() raises
\* FileNotFoundError, which nothing catches.
PrecheckNoExists(f, business_logic) ==
    IF f = Absent THEN "unhandled"
    ELSE IF ~Decodable(f) THEN "unhandled"
    ELSE IF business_logic = <<>> THEN "empty_logic" ELSE "call"

\* main.py:154-165, in the order of the code: the schema file must exist, is read
\* (an undecodable file raises UnicodeDecodeError, which nothing catches), and only
\* then is business_logic tested.
Precheck(f, business_logic) ==
    IF f = Absent THEN "no_schema"
    ELSE IF ~Decodable(f) THEN "unhandled"
    ELSE IF business_logic = <<>> THEN "empty_logic" ELSE "call"

\* The handler of slot r ends with `result`: a return value or an HTTPException.
Finish(r, result) ==
    [req EXCEPT ![r].pc = "done", ![r].status = result.status,
                ![r].detail = result.detail, ![r].sql = result.sql]

\* POST /generate-sql/ arrives: generate_sql_endpoint and, when it calls it,
\* generate_sql_from_gemini up to the first `await client.post(...)`.
generate_sql_endpoint(r, business_logic) ==
    /\ req[r].pc = "idle"
    /\ LET check == Precheck(file, business_logic)
           start == [Idle EXCEPT !.kind = "generate", !.business_logic = business_logic]
           read == [start EXCEPT !.schema_ddl = Decode(file)]
       IN req' = [req EXCEPT ![r] =
            CASE check = "no_schema" ->
                   [start EXCEPT !.pc = "done", !.status = 400, !.detail = "no_schema"]
              [] check = "unhandled" ->
                   [start EXCEPT !.pc = "done", !.status = 500, !.detail = "unhandled"]
              [] check = "empty_logic" ->
                   [read EXCEPT !.pc = "done", !.status = 400, !.detail = "empty_logic"]
              [] check = "call" ->
                   IF ~API_KEY
                   THEN [read EXCEPT !.pc = "done", !.status = 500, !.detail = "no_key"]
                   ELSE [read EXCEPT !.pc = "posting", !.posts = 1]]
    /\ UNCHANGED <<file, lastWrite, API_KEY, variant, upload_dir, dbVars>>

\* `await client.post(...)` ends.  main.py:105-108: a 200 leaves the loop, any other
\* status starts the sleep.  gemini_service.py:40-41: the response is inspected at once.
generate_sql_from_gemini(r, outcome) ==
    /\ req[r].kind = "generate" /\ req[r].pc = "posting"
    /\ req' =
         IF outcome = RequestError
         THEN Finish(r, [status |-> ExceptClause(Exc("RequestError", 0)),
                         detail |-> "unavailable", sql |-> <<>>])
         ELSE IF variant = "service" \/ BreaksLoop(outcome.status)
         THEN [Finish(r, Inspect(outcome)) EXCEPT ![r].response = outcome]
         ELSE [req EXCEPT ![r].response = outcome, ![r].pc = "sleeping",
                          ![r].waited = @ + Backoff(req[r].i)]
    /\ UNCHANGED <<file, lastWrite, API_KEY, variant, upload_dir, dbVars>>

\* `await asyncio.sleep(2 ** i)` ends: the next attempt, or the end of the loop.
backoff_done(r) ==
    /\ req[r].kind = "generate" /\ req[r].pc = "sleeping"
    /\ req' =
         IF req[r].i + 1 < Attempts
         THEN [req EXCEPT ![r].i = @ + 1, ![r].pc = "posting", ![r].posts = @ + 1]
         ELSE Finish(r, Inspect(req[r].response))
    /\ UNCHANGED <<file, lastWrite, API_KEY, variant, upload_dir, dbVars>>

\* The response of a finished handler is sent; the slot serves the next request.
respond(r) ==
    /\ req[r].pc = "done"
    /\ req' = [req EXCEPT ![r] = Idle]
    /\ UNCHANGED <<file, lastWrite, API_KEY, variant, upload_dir, dbVars>>

-----------------------------------------------------------------------------
(* The connection pool (database.py) *)

NoPool == "None"      \* database.py:17: pool = None
ThePool == "pool"     \* the handle asyncpg.create_pool returns

NoCaller == [pc |-> "idle", handed |-> NoPool, open |-> FALSE, status |-> 0]

\* The application starts: the startup hook creates the upload directory
\* (main.py:64, os.makedirs) and calls connect_to_db.
lifespan_startup ==
    /\ phase = "imported"
    /\ phase' = "starting"
    /\ upload_dir' = TRUE
    /\ UNCHANGED <<pool, created, closed, caller>>
    /\ UNCHANGED storeVars

\* database.py:19-29: create_pool returns a pool, or raises and pool stays None.
connect_to_db(ok) ==
    /\ phase = "starting"
    /\ phase' = "running"
    /\ pool' = IF ok THEN ThePool ELSE NoPool
    /\ created' = IF ok THEN created + 1 ELSE created
    /\ UNCHANGED <<closed, caller>>
    /\ UNCHANGED <<storeVars, upload_dir>>

\* database.py:40-44
get_db_pool == pool

\* A request that needs the database is served: it asks for the pool, and answers
\* 503 when there is none; otherwise it borrows a connection.
execute_sql(c) ==
    /\ phase = "running"
    /\ caller[c].pc = "idle"
    /\ LET p == get_db_pool IN
       caller' = [caller EXCEPT ![c] =
            [pc |-> IF p = NoPool THEN "done" ELSE "querying",
             handed |-> p,
             open |-> p # NoPool /\ closed < created,
             status |-> IF p = NoPool THEN 503 ELSE 0]]
    /\ UNCHANGED <<pool, phase, created, closed>>
    /\ UNCHANGED <<storeVars, upload_dir>>

\* The query of a request ends and its connection is released.
execute_sql_done(c) ==
    /\ caller[c].pc = "querying"
    /\ caller' = [caller EXCEPT ![c].pc = "done", ![c].status = 200]
    /\ UNCHANGED <<pool, phase, created, closed>>
    /\ UNCHANGED <<storeVars, upload_dir>>

\* The response is sent; the slot serves the next request.
execute_sql_respond(c) ==
    /\ caller[c].pc = "done"
    /\ caller' = [caller EXCEPT ![c].pc = "idle"]
    /\ UNCHANGED <<pool, phase, created, closed>>
    /\ UNCHANGED <<storeVars, upload_dir>>

\* The application stops: no new request is served, the shutdown hook runs.
lifespan_shutdown ==
    /\ phase = "running"
    /\ phase' = "stopping"
    /\ UNCHANGED <<pool, created, closed, caller>>
    /\ UNCHANGED <<storeVars, upload_dir>>

\* Mutant of close_db_connection: the test is inverted, the pool is never closed.
close_db_connection_skip ==
    /\ phase = "stopping"
    /\ phase' = "stopped"
    /\ UNCHANGED <<pool, created, closed, caller>>
    /\ UNCHANGED <<storeVars, upload_dir>>

\* database.py:31-37: if pool: await pool.close()
close_db_connection ==
    /\ phase = "stopping"
    /\ phase' = IF pool # NoPool THEN "closing" ELSE "stopped"
    /\ UNCHANGED <<pool, created, closed, caller>>
    /\ UNCHANGED <<storeVars, upload_dir>>

\* database.py:37-38: pool.close() returns; the variable keeps the closed pool.
pool_close_returns ==
    /\ phase = "closing"
    /\ phase' = "stopped"
    /\ closed' = closed + 1
    /\ UNCHANGED <<pool, created, caller>>
    /\ UNCHANGED <<storeVars, upload_dir>>

-----------------------------------------------------------------------------
(* Specifications *)

StoreInit ==
    /\ file = Absent
    /\ lastWrite = NoWrite
    /\ API_KEY = TRUE
    /\ variant = "main"

\* The modules have been imported, the application has not started.
DbInit ==
    /\ upload_dir = FALSE
    /\ pool = NoPool
    /\ phase = "imported"
    /\ created = 0
    /\ closed = 0
    /\ caller = [c \in 1..MaxCallers |-> NoCaller]

\* The application of main.py is serving requests: startup_event has run, and it
\* creates no pool.
Serving ==
    /\ upload_dir = TRUE
    /\ pool = NoPool
    /\ phase = "running"
    /\ created = 0
    /\ closed = 0
    /\ caller = [c \in 1..MaxCallers |-> NoCaller]

\* The upstream outcomes of the schema-store specification: a good answer, an
\* error status and a network failure.
StoreOutcomes ==
    { [status |-> 200, body |-> "plain"], [status |-> 429, body |-> "error"], RequestError }

\* The schema store and the two endpoints, MaxReq requests in flight.
Init ==
    /\ StoreInit
    /\ req = [r \in 1..MaxReq |-> Idle]
    /\ Serving

Next ==
    \/ \E r \in DOMAIN req, payload \in Payloads : upload_ddl_schema(r, payload)
    \/ \E r \in DOMAIN req, io \in IoOutcomes : upload_write(r, io)
    \/ \E r \in DOMAIN req : upload_close(r)
    \/ \E r \in DOMAIN req, business_logic \in Logics :
          generate_sql_endpoint(r, business_logic)
    \/ \E r \in DOMAIN req, outcome \in StoreOutcomes :
          generate_sql_from_gemini(r, outcome)
    \/ \E r \in DOMAIN req : backoff_done(r)
    \/ \E r \in DOMAIN req : respond(r)

Spec == Init /\ [][Next]_vars

\* One generate-sql request at a time against a stored schema, every upstream outcome.
SynthInit ==
    /\ file = <<"a">>
    /\ lastWrite = [written |-> TRUE, content |-> <<"a">>, ok |-> TRUE]
    /\ API_KEY \in Keys
    /\ variant \in Variants
    /\ req = [r \in {1} |-> Idle]
    /\ Serving

SynthNext ==
    \/ \E r \in DOMAIN req, business_logic \in Logics :
          generate_sql_endpoint(r, business_logic)
    \/ \E r \in DOMAIN req, outcome \in Outcomes : generate_sql_from_gemini(r, outcome)
    \/ \E r \in DOMAIN req : backoff_done(r)
    \/ \E r \in DOMAIN req : respond(r)

SpecSynth == SynthInit /\ [][SynthNext]_vars

\* The life of the application and its pool.
PoolInit ==
    /\ file = Absent
    /\ lastWrite = NoWrite
    /\ API_KEY = TRUE
    /\ variant = "main"
    /\ req = [r \in {1} |-> Idle]
    /\ DbInit

PoolNext ==
    \/ lifespan_startup
    \/ \E ok \in BOOLEAN : connect_to_db(ok)
    \/ \E c \in DOMAIN caller : execute_sql(c)
    \/ \E c \in DOMAIN caller : execute_sql_done(c)
    \/ \E c \in DOMAIN caller : execute_sql_respond(c)
    \/ lifespan_shutdown
    \/ close_db_connection
    \/ pool_close_returns

SpecPool == PoolInit /\ [][PoolNext]_vars

-----------------------------------------------------------------------------
(* Properties of the schema store and the endpoints (Spec) *)

\* The request called generate_sql_from_gemini.
SynthCalled(q) == q.kind = "generate" /\ (q.posts >= 1 \/ q.detail = "no_key")

\* The step in which slot r takes a generate-sql request that reaches the synthesizer.
CallsSynth(r) == req[r].pc = "idle" /\ SynthCalled(req'[r])

\* C1: as long as no upload has created the schema file, every generate-sql request,
\* whatever its business_logic, has ended with HTTP 400 and has sent no POST upstream.
C1_NoSchemaIs400 ==
    ~lastWrite.written =>
        \A r \in DOMAIN req :
            req[r].kind = "generate" =>
                /\ req[r].pc = "done"
                /\ req[r].status = 400
                /\ req[r].posts = 0

C1_Witness ==
    /\ ~lastWrite.written
    /\ \E r \in DOMAIN req :
          /\ req[r].kind = "generate" /\ req[r].business_logic # <<>>
          /\ req[r].status = 400 /\ req[r].posts = 0
    /\ \E r \in DOMAIN req : req[r].kind = "upload" /\ req[r].status = 500

C6_EmptyLogicIs400 ==
    \A r \in DOMAIN req :
        /\ (req[r].kind = "generate" /\ req[r].business_logic = <<>>) =>
               (req[r].pc = "done" /\ req[r].status = 400 /\ req[r].posts = 0)
        /\ SynthCalled(req[r]) => (req[r].business_logic # <<>> /\ lastWrite.written)

\* C9 (as stated): the step of an upload that fails (reading the upload, opening the
\* schema file or writing it) leaves the schema file as it was.
C9_FailedUploadKeepsFile ==
    [][\A r \in DOMAIN req :
          (req[r].kind = "upload" /\ req[r].pc = "reading" /\ req'[r].failed) =>
              file' = file]_vars

\* C10 (as stated, and so what it implies): the schema text a generate-sql request
\* passes to the synthesizer is the complete content of an upload, never a part of one.
C10_CompleteUpload ==
    \A r \in DOMAIN req :
        SynthCalled(req[r]) =>
            \E contents \in Payloads :
                Decodable(contents) /\ req[r].schema_ddl = Decode(contents)

-----------------------------------------------------------------------------
(* Properties of the synthesizer (SpecSynth) *)

\* The request ended by inspecting the last response (not by a network failure).
Inspected(q) ==
    /\ q.kind = "generate" /\ q.pc = "done"
    /\ q.posts >= 1 /\ q.detail # "unavailable"

\* C3 (as stated): the SQL a generate-sql request returns holds no fence marker and
\* no newline character.
C3_NoFenceNoNewline ==
    \A r \in DOMAIN req :
        (req[r].kind = "generate" /\ req[r].pc = "done" /\ req[r].status = 200) =>
            /\ ~Contains(req[r].sql, Fence)
            /\ ~Contains(req[r].sql, <<LF>>)

\* C4 (as amended): a call of main.py's synthesizer sends at most 3 POSTs; a further
\* POST is sent only after a response whose status is not 200; after the k-th such
\* response the call has slept 1 + 2 + ... + 2^(k-1) seconds; a 200 ends the loop at
\* once; the result is that of the last response received; two failures and then a
\* good 200 give a successful call after 3 seconds of sleep.
C4_RetryLoop ==
    \A r \in DOMAIN req :
        (req[r].kind = "generate" /\ variant = "main") =>
            LET q == req[r] IN
            /\ q.posts <= 3
            /\ (q.pc = "posting" /\ q.posts >= 2) =>
                   (q.response # NoResponse /\ q.response.status # 200)
            /\ q.pc = "posting" => q.waited = 2 ^ (q.posts - 1) - 1
            /\ q.pc = "sleeping" =>
                   (q.response.status # 200 /\ q.waited = 2 ^ q.posts - 1)
            /\ q.response.status = 200 => q.pc = "done"
            /\ Inspected(q) =>
                   /\ q.status = 200 <=>
                          (is_success(q.response.status) /\ q.response.body \in GoodBodies)
                   /\ q.response.status = 200 => q.waited = 2 ^ (q.posts - 1) - 1
                   /\ q.response.status # 200 => (q.posts = 3 /\ q.waited = 7)
            /\ (Inspected(q) /\ q.posts = 3 /\ q.response.status = 200
                   /\ q.response.body \in GoodBodies) =>
                   (q.status = 200 /\ q.waited = 1 + 2)

C4_Witness ==
    \E r \in DOMAIN req :
        /\ variant = "main" /\ Inspected(req[r])
        /\ req[r].posts = 3 /\ req[r].response.status = 200
        /\ req[r].status = 200 /\ req[r].waited = 3

\* C4 (as stated): a further POST is sent only after a non-success status, and the
\* first successful response ends the loop.
C4_RetryOnNonSuccess ==
    \A r \in DOMAIN req :
        (req[r].kind = "generate" /\ variant = "main") =>
            /\ (req[r].pc = "posting" /\ req[r].posts >= 2) =>
                   ~is_success(req[r].response.status)
            /\ is_success(req[r].response.status) => req[r].pc = "done"

\* C5 (as amended): with the credential set and no network failure, a call whose
\* last response has a non-success status fails with HTTP 500, whatever that status.
C5_UpstreamErrorIs500 ==
    \A r \in DOMAIN req :
        (API_KEY /\ Inspected(req[r]) /\ ~is_success(req[r].response.status)) =>
            req[r].status = 500

C5_Witness ==
    \E r \in DOMAIN req :
        /\ API_KEY /\ Inspected(req[r])
        /\ req[r].response.status = 429 /\ req[r].status = 500

\* C5 (as stated): the status the caller gets is the upstream's.
C5_UpstreamStatusPropagated ==
    \A r \in DOMAIN req :
        (API_KEY /\ Inspected(req[r]) /\ ~is_success(req[r].response.status)) =>
            req[r].status = req[r].response.status

\* C7: a network failure of a POST ends the call with HTTP 503 and no further POST;
\* without the credential the call ends with HTTP 500 and no POST; a success
\* response that lacks a segment of candidates[0].content.parts[0].text ends the
\* call with HTTP 500.
C7_ErrorStatuses ==
    \A r \in DOMAIN req :
        LET q == req[r] IN
        /\ (q.kind = "generate" /\ q.detail = "unavailable") =>
               (q.pc = "done" /\ q.status = 503)
        /\ (~API_KEY /\ q.kind = "generate" /\ q.business_logic # <<>>) =>
               (q.pc = "done" /\ q.status = 500 /\ q.posts = 0)
        /\ (Inspected(q) /\ is_success(q.response.status)
               /\ q.response.body \in AbsentBodies) =>
               q.status = 500

\* The second POST of a call failed at the network level.
C7_Witness ==
    \E r \in DOMAIN req :
        /\ req[r].kind = "generate" /\ req[r].detail = "unavailable"
        /\ req[r].posts = 2 /\ req[r].status = 503

-----------------------------------------------------------------------------
(* Properties of the connection pool (SpecPool) *)

====
